---------------------------- MODULE Spec2Model ----------------------------
(***************************************************************************)
(* A model of the path tracer's camera (camera.h: initialize, get_ray,     *)
(* ray_color, render_to_file, render_to_png, print_progress) and of its    *)
(* post-process filters (denoiser.h).                                      *)
(*                                                                         *)
(* Numbers.  A C++ double is modelled as an extended rational <<n, d>>     *)
(* in lowest terms with d >= 0: d > 0 is the finite value n/d, <<1, 0>>    *)
(* and <<-1, 0>> are +inf and -inf and <<0, 0>> is NaN, with the IEEE-754  *)
(* rules for the special values (x/0 = inf, 0/0 = NaN, 0*inf = NaN, NaN    *)
(* propagates, every comparison with NaN is false).  Rounding and finite   *)
(* overflow of doubles are not modelled.  A color is a triple of doubles.  *)
(***************************************************************************)
EXTENDS Integers, Sequences, FiniteSets, TLC

VARIABLES
    cam,            \* the camera's public fields (camera.h: class camera, public)
    args,           \* the arguments of render_to_file: filename, world, lights
    priv,           \* the camera's private fields, set by initialize()
    rand,           \* the random source behind random_double(): stream and cursor
    pc,             \* the position of the program
    loop,           \* the render loops' locals: j, i, s_j, s_i, pixel_color, rays
    color_buffer,   \* render_to_png: std::vector<color> color_buffer
    final_buffer,   \* render_to_png: std::vector<color> final_buffer
    out,            \* what has been handed to image output, and the write's outcome
    log,            \* the calls of print_progress, in order
    rc,             \* one call of ray_color: its arguments and its return value
    dn,             \* one call of a denoiser filter: arguments, result, iterations
    prev,           \* the caller's copy of an earlier render of the same inputs
    cli             \* one run of a program's main: argv and the scene call it makes

vars == <<cam, args, priv, rand, pc, loop, color_buffer, final_buffer, out, log, rc, dn,
          prev, cli>>

---------------------------------------------------------------------------
(* Bounds of the model. *)

MaxDepth == 2        \* the largest recursion depth handed to ray_color
MaxLights == 1       \* the largest number of surfaces in the lights aggregate
MaxWidth == 2        \* the largest image_width
MaxSpp == 5          \* the largest samples_per_pixel
MaxPixels == 4       \* the largest width*height handed to a denoiser filter alone

---------------------------------------------------------------------------
(* Doubles as extended rationals. *)

Abs(x) == IF x < 0 THEN -x ELSE x

Sign(x) == IF x > 0 THEN 1 ELSE IF x < 0 THEN -1 ELSE 0

RECURSIVE GCD(_, _)
GCD(a, b) == IF b = 0 THEN a ELSE GCD(b, a % b)

Norm(n, d) ==
    IF d = 0 THEN <<Sign(n), 0>>
    ELSE LET s == IF d < 0 THEN -1 ELSE 1
             g == GCD(Abs(n), Abs(d))
         IN  <<(s * n) \div g, (s * d) \div g>>

R(n) == <<n, 1>>
Q(n, d) == Norm(n, d)
NaN == <<0, 0>>
Inf == <<1, 0>>

IsNaN(a) == a = NaN
IsInf(a) == a[2] = 0 /\ a[1] # 0
IsFinite(a) == a[2] > 0

RNeg(a) == <<-a[1], a[2]>>

RAdd(a, b) ==
    IF IsNaN(a) \/ IsNaN(b) THEN NaN
    ELSE IF IsInf(a) THEN (IF IsInf(b) /\ b # a THEN NaN ELSE a)
    ELSE IF IsInf(b) THEN b
    ELSE LET g == GCD(a[2], b[2])
         IN  Norm(a[1] * (b[2] \div g) + b[1] * (a[2] \div g), (a[2] \div g) * b[2])

RSub(a, b) == RAdd(a, RNeg(b))

RMul(a, b) ==
    IF a[2] = 0 \/ b[2] = 0 THEN Norm(Sign(a[1]) * Sign(b[1]), 0)
    ELSE LET g == GCD(Abs(a[1]), b[2])
             h == GCD(Abs(b[1]), a[2])
         IN  Norm((a[1] \div g) * (b[1] \div h), (a[2] \div h) * (b[2] \div g))

\* 1.0 / a, with 1/0 = +inf and 1/inf = 0
RInv(a) == IF a[1] < 0 THEN <<-a[2], -a[1]>> ELSE <<a[2], a[1]>>

RDiv(a, b) == RMul(a, RInv(b))

\* a < b on doubles: false when either is NaN
RLess(a, b) ==
    /\ ~IsNaN(a)
    /\ ~IsNaN(b)
    /\ a # b
    /\ IF IsInf(a) THEN a[1] < 0
       ELSE IF IsInf(b) THEN b[1] > 0
       ELSE LET g == GCD(a[2], b[2])
            IN  a[1] * (b[2] \div g) < b[1] * (a[2] \div g)

\* int(x) for a finite double x: truncation toward zero
Trunc(a) == IF a[1] >= 0 THEN a[1] \div a[2] ELSE -((-a[1]) \div a[2])

---------------------------------------------------------------------------
(* vec3.h / color.h: colors are triples of doubles, operated on per channel. *)

Color(x, y, z) == <<x, y, z>>
Black == Color(R(0), R(0), R(0))
White == Color(R(1), R(1), R(1))
Grey == Color(Q(1, 2), Q(1, 2), Q(1, 2))
Sky == Color(Q(7, 10), Q(4, 5), R(1))
Lamp == Color(R(7), R(7), R(7))
Rust == Color(Q(7, 10), Q(3, 10), Q(1, 10))
Leaf == Color(Q(1, 10), Q(1, 2), Q(1, 5))

CAdd(a, b) == <<RAdd(a[1], b[1]), RAdd(a[2], b[2]), RAdd(a[3], b[3])>>
CSub(a, b) == <<RSub(a[1], b[1]), RSub(a[2], b[2]), RSub(a[3], b[3])>>
CMul(a, b) == <<RMul(a[1], b[1]), RMul(a[2], b[2]), RMul(a[3], b[3])>>
CScale(a, t) == <<RMul(a[1], t), RMul(a[2], t), RMul(a[3], t)>>
\* vec3 operator/(v, t) is (1/t) * v
CDiv(a, t) == CScale(a, RInv(t))
CFinite(a) == IsFinite(a[1]) /\ IsFinite(a[2]) /\ IsFinite(a[3])


---------------------------------------------------------------------------
(* The world, its materials and the sampling densities: hittable.h,        *)
(* material.h and pdf.h.  What a ray meets is given by the scene: a world  *)
(* is a sequence of scripts, a ray looks at the script of its cell, and    *)
(* the script's k-th event is what the ray's k-th bounce meets: the hit    *)
(* record's material (its emitted color, whether it scatters, the scatter  *)
(* record's skip_pdf and attenuation) and, for a sampled direction, the    *)
(* densities of the light pdf, of the material's pdf and of                *)
(* scattering_pdf at the direction the mixture generated.                  *)

Event(h, e, s, k, a, lp, mp, sp) ==
    [hit |-> h, emitted |-> e, scatter |-> s, skip_pdf |-> k, attenuation |-> a,
     light_pdf |-> lp, mat_pdf |-> mp, scattering_pdf |-> sp]

Miss == Event(FALSE, Black, FALSE, FALSE, Black, R(0), R(0), R(0))

\* diffuse_light (front face), and a hit that neither emits nor scatters
\* (diffuse_light's back face, metal whose fuzzed ray goes below the surface)
Emitters ==
    { Event(TRUE, e, FALSE, FALSE, Black, R(0), R(0), R(0)) : e \in {Lamp, Black} }

\* metal and dielectric (skip_pdf, no emission), and a material that scatters
\* specularly and emits
Speculars ==
    { Event(TRUE, m[1], TRUE, TRUE, m[2], R(0), R(0), R(0)) :
        m \in {<<Black, Rust>>, <<Black, White>>, <<Lamp, Grey>>} }

\* lambertian: the densities at the generated direction.  light_pdf is positive
\* when the direction reaches a light, mat_pdf (= scattering_pdf, cos/pi) is
\* zero when it points below the surface.
Diffuses ==
    { Event(TRUE, Black, TRUE, FALSE, Grey, lp, mp, mp) :
        lp \in {R(0), R(2)}, mp \in {R(0), R(1)} }
    \cup { Event(TRUE, Lamp, TRUE, FALSE, Grey, R(2), R(1), R(1)) }

Events == {Miss} \cup Emitters \cup Speculars \cup Diffuses

Ray(c, b, t) == [cell |-> c, bounce |-> b, time |-> t]

\* world.hit(r, interval(0.001, infinity), rec): the hit record, rec.hit false
\* for no hit
Hit(world, r) ==
    IF Len(world) = 0 THEN Miss
    ELSE LET script == world[(r.cell % Len(world)) + 1]
         IN  IF r.bounce <= Len(script) THEN script[r.bounce] ELSE Miss

\* hittable_pdf(lights, rec.p).value(direction): an empty aggregate has no
\* direction of positive density
LightPdfValue(lights, rec) == IF lights = 0 THEN R(0) ELSE rec.light_pdf

\* mixture_pdf::value: the arithmetic mean of the two densities
MixtureValue(light_value, mat_value) ==
    RAdd(RMul(Q(1, 2), light_value), RMul(Q(1, 2), mat_value))

---------------------------------------------------------------------------
(* camera::ray_color.  The operator returns the color together with what   *)
(* the call did: the number of invocations (this one and the nested ones), *)
(* of world.hit calls, of material queries (emitted, scatter,              *)
(* scattering_pdf), and, for every division by a mixture density, the      *)
(* divisor and the material's own density (outermost invocation first).    *)

Ret(c, n, h, q, ds) == [color |-> c, calls |-> n, hits |-> h, queries |-> q, divisions |-> ds]

\* if (depth <= 0)
BounceLimitReachedOff(depth) == depth < 0
BounceLimitReached(depth) == depth <= 0

\* return background;
MissColorBlack(background) == Black
MissColor(background) == background

\* return srec.attenuation * ray_color(srec.skip_pdf_ray, depth-1, world, lights);
SkipPdfColor(color_from_emission, attenuation, sample_color) ==
    CMul(attenuation, sample_color)

\* (srec.attenuation * scattering_pdf * sample_color) / pdf_value, plus emission
ScatterColor(color_from_emission, attenuation, scattering_pdf, sample_color, pdf_value) ==
    CAdd(color_from_emission,
         CDiv(CMul(CScale(attenuation, scattering_pdf), sample_color), pdf_value))

\* the depth handed to the nested call: depth-1
NextDepthUnchanged(depth) == depth
NextDepth(depth) == depth - 1

RECURSIVE ray_color(_, _, _, _, _)
ray_color(r, depth, world, lights, background) ==
    IF BounceLimitReached(depth) THEN Ret(Black, 1, 0, 0, <<>>)
    ELSE
    LET rec == Hit(world, r) IN
    IF ~rec.hit THEN Ret(MissColor(background), 1, 1, 0, <<>>)
    ELSE
    LET color_from_emission == rec.emitted IN
    IF ~rec.scatter THEN Ret(color_from_emission, 1, 1, 2, <<>>)
    ELSE
    IF rec.skip_pdf THEN
        LET skip_pdf_ray == Ray(r.cell, r.bounce + 1, r.time)
            sub == ray_color(skip_pdf_ray, NextDepth(depth), world, lights, background)
        IN  Ret(SkipPdfColor(color_from_emission, rec.attenuation, sub.color),
                1 + sub.calls, 1 + sub.hits, 2 + sub.queries, sub.divisions)
    ELSE
        LET scattered == Ray(r.cell, r.bounce + 1, r.time)
            pdf_value == MixtureValue(LightPdfValue(lights, rec), rec.mat_pdf)
            scattering_pdf == rec.scattering_pdf
            sub == ray_color(scattered, NextDepth(depth), world, lights, background)
        IN  Ret(ScatterColor(color_from_emission, rec.attenuation, scattering_pdf,
                             sub.color, pdf_value),
                1 + sub.calls, 1 + sub.hits, 3 + sub.queries,
                <<[pdf_value |-> pdf_value, mat_pdf |-> rec.mat_pdf]>> \o sub.divisions)

---------------------------------------------------------------------------
(* denoiser.h.  A buffer is a sequence of colors, row-major: the element of *)
(* pixel (x, y) is at index y*width + x (0-based; sequences are 1-based).   *)

\* int idx = y * width + x;
PixelIndexOfRow(x, y, width) == y * width
PixelIndex(x, y, width) == y * width + x

At(image, x, y, width) == image[PixelIndex(x, y, width) + 1]

\* std::clamp(v, lo, hi)
Clamp(v, lo, hi) == IF v < lo THEN lo ELSE IF hi < v THEN hi ELSE v

\* static_cast<int>(std::ceil(a)) for a finite double
Ceil(a) == -((-a[1]) \div a[2])

\* std::exp on the arguments the bilateral filter gives it (never positive).
\* exp(NaN) is NaN, exp(-inf) is 0 and exp(0) is 1; for a finite x <= 0 the
\* value stands in as 2^-floor(-x), a positive weight that does not grow with
\* -x and that underflows to 0 once floor(-x) exceeds ExpUnderflow.
ExpUnderflow == 4
Exp(x) ==
    IF IsNaN(x) THEN NaN
    ELSE IF IsInf(x) THEN (IF x[1] < 0 THEN R(0) ELSE Inf)
    ELSE LET k == (-x[1]) \div x[2]
         IN  IF k > ExpUnderflow THEN R(0) ELSE Q(1, 2 ^ k)

\* the kernel offsets (kx, ky) in the order of the loops: ky outer, kx inner
KernelOffsets(radius) ==
    IF radius < 0 THEN <<>>
    ELSE LET n == 2 * radius + 1
         IN  [k \in 1..(n * n) |-> <<((k - 1) % n) - radius, ((k - 1) \div n) - radius>>]

\* sum += terms[lo]; ...; sum += terms[hi].  The additions are exact here, so
\* the sum is taken by halves, which gives the value of the loop's running sum.
RECURSIVE CSumRange(_, _, _)
CSumRange(terms, lo, hi) ==
    IF lo > hi THEN Black
    ELSE IF lo = hi THEN terms[lo]
    ELSE LET mid == (lo + hi) \div 2
         IN  CAdd(CSumRange(terms, lo, mid), CSumRange(terms, mid + 1, hi))
CSum(terms) == CSumRange(terms, 1, Len(terms))

\* the same for doubles, from 0.0
RECURSIVE RSumRange(_, _, _)
RSumRange(terms, lo, hi) ==
    IF lo > hi THEN R(0)
    ELSE IF lo = hi THEN terms[lo]
    ELSE LET mid == (lo + hi) \div 2
         IN  RAdd(RSumRange(terms, lo, mid), RSumRange(terms, mid + 1, hi))
RSum(terms) == RSumRange(terms, 1, Len(terms))

\* diff.x()*diff.x() + diff.y()*diff.y() + diff.z()*diff.z()
SquaredLength(diff) ==
    RAdd(RAdd(RMul(diff[1], diff[1]), RMul(diff[2], diff[2])), RMul(diff[3], diff[3]))

\* std::sqrt(q) < t for q >= 0: t is positive and q < t*t
SqrtLess(q, t) == RLess(R(0), t) /\ RLess(q, RMul(t, t))

\* bilateral_denoise, the kernel's step at offset (kx, ky): the neighbor
\* (clamped to the image) and its combined weight
BilateralTap(image, width, height, spatial_factor, intensity_factor, center, x, y, kx, ky) ==
    LET nx == Clamp(x + kx, 0, width - 1)
        ny == Clamp(y + ky, 0, height - 1)
        neighbor == At(image, nx, ny, width)
        spatial_dist == R(kx * kx + ky * ky)
        spatial_weight == Exp(RMul(RNeg(spatial_dist), spatial_factor))
        intensity_dist == SquaredLength(CSub(center, neighbor))
        intensity_weight == Exp(RMul(RNeg(intensity_dist), intensity_factor))
    IN  [neighbor |-> neighbor, combined_weight |-> RMul(spatial_weight, intensity_weight)]

BilateralTaps(image, width, height, spatial_factor, intensity_factor, center, x, y, offsets) ==
    [k \in 1..Len(offsets) |->
        BilateralTap(image, width, height, spatial_factor, intensity_factor, center,
                     x, y, offsets[k][1], offsets[k][2])]

\* result[idx] = weighted_sum * (1.0 / weight_sum);
BilateralValue(taps) ==
    LET weighted_sum == CSum([k \in 1..Len(taps) |->
                                 CScale(taps[k].neighbor, taps[k].combined_weight)])
        weight_sum == RSum([k \in 1..Len(taps) |-> taps[k].combined_weight])
    IN  CScale(weighted_sum, RInv(weight_sum))

\* bilateral_denoise: the body of the loop for pixel (x, y)
BilateralPixel(image, width, height, sigma_spatial, sigma_intensity, x, y) ==
    BilateralValue(
        BilateralTaps(image, width, height,
                      RInv(RMul(R(2), RMul(sigma_spatial, sigma_spatial))),
                      RInv(RMul(R(2), RMul(sigma_intensity, sigma_intensity))),
                      At(image, x, y, width), x, y,
                      KernelOffsets(Ceil(RMul(sigma_spatial, Q(5, 2))))))

\* fast_denoise, the kernel's step at offset (kx, ky): whether the neighbor is
\* inside the image and within the threshold of the center, and the neighbor
FastTap(image, width, height, edge_threshold, center, x, y, kx, ky) ==
    LET nx == x + kx
        ny == y + ky
    IN  IF nx >= 0 /\ nx < width /\ ny >= 0 /\ ny < height
        THEN LET neighbor == At(image, nx, ny, width)
                 color_diff_squared == SquaredLength(CSub(center, neighbor))
             IN  [added |-> SqrtLess(color_diff_squared, edge_threshold),
                  neighbor |-> neighbor]
        ELSE [added |-> FALSE, neighbor |-> Black]

FastTaps(image, width, height, edge_threshold, center, x, y, offsets) ==
    [k \in 1..Len(offsets) |->
        FastTap(image, width, height, edge_threshold, center, x, y,
                offsets[k][1], offsets[k][2])]

IsAdded(tap) == tap.added

\* result[idx] = sum * (1.0 / count);
FastValue(added) ==
    CScale(CSum([k \in 1..Len(added) |-> added[k].neighbor]), RInv(R(Len(added))))

\* fast_denoise: the body of the loop for pixel (x, y)
FastPixel(image, width, height, kernel_size, edge_threshold, x, y) ==
    FastValue(SelectSeq(FastTaps(image, width, height, edge_threshold,
                                 At(image, x, y, width), x, y,
                                 KernelOffsets(Trunc(RDiv(kernel_size, R(2))))),
                        IsAdded))

\* median_denoise: the colors pushed for pixel (x, y), in the kernel's order
MedianTaps(image, width, height, x, y, offsets) ==
    [k \in 1..Len(offsets) |->
        At(image, Clamp(x + offsets[k][1], 0, width - 1),
                  Clamp(y + offsets[k][2], 0, height - 1), width)]

\* std::sort(values); values[values.size() / 2]
MedianOfBelow(values) == SortSeq(values, RLess)[Len(values) \div 2]
MedianOf(values) == SortSeq(values, RLess)[(Len(values) \div 2) + 1]

MedianValue(taps) ==
    Color(MedianOf([k \in 1..Len(taps) |-> taps[k][1]]),
          MedianOf([k \in 1..Len(taps) |-> taps[k][2]]),
          MedianOf([k \in 1..Len(taps) |-> taps[k][3]]))

\* median_denoise: the body of the loop for pixel (x, y)
MedianPixel(image, width, height, kernel_size, x, y) ==
    MedianValue(MedianTaps(image, width, height, x, y,
                           KernelOffsets(Trunc(RDiv(kernel_size, R(2))))))

\* the body of the loop of the filter `mode` for pixel (x, y)
FilterPixel(mode, image, width, height, p1, p2, x, y) ==
    CASE mode = "bilateral" -> BilateralPixel(image, width, height, p1, p2, x, y)
      [] mode = "fast" -> FastPixel(image, width, height, p1, p2, x, y)
      [] mode = "median" -> MedianPixel(image, width, height, p1, x, y)

\* the filter `mode` as a whole, every pixel computed from the input
Denoise(mode, image, width, height, p1, p2) ==
    [k \in 1..(width * height) |->
        FilterPixel(mode, image, width, height, p1, p2, (k - 1) % width, (k - 1) \div width)]

---------------------------------------------------------------------------
(* The camera's fields. *)

\* class camera's member initializers
DefaultCamera ==
    [aspect_ratio |-> R(1), image_width |-> 100, samples_per_pixel |-> 10,
     max_depth |-> 10, background |-> Black, defocus_angle |-> R(0),
     denoise |-> FALSE, denoise_mode |-> "bilateral"]

\* a value not set yet; the private fields before initialize() has set them
\* hold no value of the program's, here 0 and NaN
Unset == "unset"
NoPriv ==
    [image_height |-> 0, sqrt_spp |-> 0, pixel_samples_scale |-> NaN,
     recip_sqrt_spp |-> NaN, viewport_width |-> NaN,
     pixel_delta_u |-> NaN, pixel_delta_v |-> NaN]

NoLoop == [j |-> 0, i |-> 0, s_j |-> 0, s_i |-> 0, pixel_color |-> Black, rays |-> <<>>]
NoOut == [colors |-> <<>>, path |-> "none", written |-> "no", returned |-> Unset]
NoRand == [seed |-> <<0>>, next |-> 0]
NoCall == [r |-> Ray(0, 1, R(0)), depth |-> 0, ret |-> Unset]
NoRender == [run |-> 1, buffer |-> <<>>, colors |-> <<>>]
NoSceneCall ==
    [scene |-> "none", width |-> 0, samples |-> 0, depth |-> 0,
     output_file |-> "", denoise_mode |-> ""]
NoCli == [program |-> "none", argv |-> <<>>, exit |-> Unset, call |-> NoSceneCall]
NoFilter ==
    [mode |-> "none", image |-> <<>>, width |-> 0, height |-> 0, p1 |-> R(0), p2 |-> R(0),
     result |-> <<>>, todo |-> {}, writes |-> <<>>]

---------------------------------------------------------------------------
(* camera::initialize, get_ray and the random source. *)

\* image_height = int(image_width / aspect_ratio);
\* image_height = (image_height < 1) ? 1 : image_height;
ImageHeightUnclamped(image_width, aspect_ratio) == Trunc(RDiv(R(image_width), aspect_ratio))
ImageHeight(image_width, aspect_ratio) ==
    LET image_height == Trunc(RDiv(R(image_width), aspect_ratio))
    IN  IF image_height < 1 THEN 1 ELSE image_height

\* int(std::sqrt(samples_per_pixel))
SqrtSpp(samples_per_pixel) ==
    CHOOSE k \in 0..samples_per_pixel : k * k <= samples_per_pixel /\ samples_per_pixel < (k + 1) * (k + 1)

\* pixel_samples_scale = 1.0 / (sqrt_spp * sqrt_spp);
PixelSamplesScalePerSample(sqrt_spp, samples_per_pixel) == RInv(R(samples_per_pixel))
PixelSamplesScale(sqrt_spp, samples_per_pixel) == RInv(R(sqrt_spp * sqrt_spp))

\* viewport_height = 2 * h * focus_dist for the default vfov = 90 (h = tan(45
\* degrees) = 1) and focus_dist = 10
ViewportHeight == R(20)

\* initialize(): the private fields it sets (lengths of the viewport vectors)
Initialize(c) ==
    LET image_height == ImageHeight(c.image_width, c.aspect_ratio)
        sqrt_spp == SqrtSpp(c.samples_per_pixel)
        viewport_width == RMul(ViewportHeight, RDiv(R(c.image_width), R(image_height)))
    IN  [image_height |-> image_height,
         sqrt_spp |-> sqrt_spp,
         pixel_samples_scale |-> PixelSamplesScale(sqrt_spp, c.samples_per_pixel),
         recip_sqrt_spp |-> RInv(R(sqrt_spp)),
         viewport_width |-> viewport_width,
         pixel_delta_u |-> RDiv(viewport_width, R(c.image_width)),
         pixel_delta_v |-> RDiv(ViewportHeight, R(image_height))]

\* random_double(): the k-th draw after the cursor, a value in [0, 1); the
\* stream repeats the seed's values, each a multiple of 1/RandLevels
RandLevels == 2
RandomDoubleUnseeded(rnd, k) ==
    Q(rnd.seed[((rnd.next + k + prev.run) % Len(rnd.seed)) + 1], RandLevels)
RandomDouble(rnd, k) == Q(rnd.seed[((rnd.next + k) % Len(rnd.seed)) + 1], RandLevels)

\* floor of a finite double
Floor(a) == a[1] \div a[2]

\* get_ray(i, j, s_i, s_j) with defocus_angle <= 0 (the ray starts at the
\* camera center): three draws, for the stratified offset (px, py) in the pixel's
\* sub-square (s_i, s_j) and for the ray's time.  The ray's cell is the
\* half-pixel square of the image plane that its pixel_sample falls in.
get_ray(p, rnd, i, j, s_i, s_j) ==
    LET px == RSub(RMul(RAdd(R(s_i), RandomDouble(rnd, 0)), p.recip_sqrt_spp), Q(1, 2))
        py == RSub(RMul(RAdd(R(s_j), RandomDouble(rnd, 1)), p.recip_sqrt_spp), Q(1, 2))
        ray_time == RandomDouble(rnd, 2)
        u == RAdd(RAdd(R(i), px), Q(1, 2))
        v == RAdd(RAdd(R(j), py), Q(1, 2))
    IN  [r |-> Ray(Floor(RMul(R(2), u)) + Floor(RMul(R(2), v)), 1, ray_time),
         offset |-> <<px, py>>,
         draws |-> 3]

---------------------------------------------------------------------------
(* One call of ray_color, on any ray, depth, world and lights. *)

Sequences(S, n) == [1..n -> S]

InitRayColor ==
    /\ \E b \in {Black, Sky} : cam = [DefaultCamera EXCEPT !.background = b]
    /\ \E script \in Sequences(Events, MaxDepth), l \in 0..MaxLights :
          args = [filename |-> "", world |-> <<script>>, lights |-> l]
    /\ \E d \in -1..MaxDepth, t \in {R(0), Q(1, 2)} :
          rc = [r |-> Ray(0, 1, t), depth |-> d, ret |-> Unset]
    /\ pc = "ray_color"
    /\ priv = NoPriv
    /\ rand = NoRand
    /\ loop = NoLoop
    /\ color_buffer = <<>>
    /\ final_buffer = <<>>
    /\ out = NoOut
    /\ log = <<>>
    /\ dn = NoFilter
    /\ prev = NoRender
    /\ cli = NoCli

CallRayColor ==
    /\ pc = "ray_color"
    /\ rc' = [rc EXCEPT !.ret = ray_color(rc.r, rc.depth, args.world, args.lights,
                                         cam.background)]
    /\ pc' = "returned"
    /\ UNCHANGED <<prev, cli, cam, args, priv, rand, loop, color_buffer, final_buffer, out, log, dn>>

NextRayColor == CallRayColor

SpecRayColor == InitRayColor /\ [][NextRayColor]_vars

\* the hit record of the call's own ray
FirstHit == Hit(args.world, rc.r)
Returned == pc = "returned"

(* C1: a call with depth <= 0 returns exactly black, and neither intersects
   the world nor queries a material. *)
C1_DepthExhaustedIsBlack ==
    (Returned /\ rc.depth <= 0) =>
        /\ rc.ret.color = Black
        /\ rc.ret.hits = 0
        /\ rc.ret.queries = 0

C1_Witness ==
    /\ Returned
    /\ rc.depth = 0
    /\ FirstHit.hit
    /\ FirstHit.emitted = Lamp
    /\ cam.background = Sky
    /\ rc.ret.color = Black

(* C2: a call with depth >= 1 whose ray hits nothing returns exactly the
   camera's background, whatever the lights aggregate holds. *)
C2_MissIsBackground ==
    (Returned /\ rc.depth >= 1 /\ ~FirstHit.hit) =>
        /\ rc.ret.color = cam.background
        /\ rc.ret.queries = 0

C2_Witness ==
    /\ Returned
    /\ rc.depth >= 1
    /\ ~FirstHit.hit
    /\ cam.background = Sky
    /\ args.lights > 0
    /\ rc.ret.color = Sky

\* the nested call along skip_pdf_ray
SkipPdfSample ==
    ray_color(Ray(rc.r.cell, rc.r.bounce + 1, rc.r.time), rc.depth - 1,
              args.world, args.lights, cam.background)

(* C3: when the hit material scatters with skip_pdf, the call returns
   emission + attenuation * ray_color(skip_pdf_ray, depth-1). *)
C3_SkipPdfAddsEmission ==
    (Returned /\ rc.depth >= 1 /\ FirstHit.hit /\ FirstHit.scatter /\ FirstHit.skip_pdf) =>
        rc.ret.color = CAdd(FirstHit.emitted,
                            CMul(FirstHit.attenuation, SkipPdfSample.color))

(* C4: in the sampled branch no division is by a zero mixture density, and
   with an empty lights aggregate the divisor is the material's own density. *)
C4_NoZeroDensityDivision ==
    Returned =>
        \A k \in 1..Len(rc.ret.divisions) :
            /\ rc.ret.divisions[k].pdf_value # R(0)
            /\ args.lights = 0 => rc.ret.divisions[k].pdf_value = rc.ret.divisions[k].mat_pdf

---------------------------------------------------------------------------
(* One call of a denoiser filter.  The iterations of the collapsed loops   *)
(* (#pragma omp parallel for collapse(2)) run in any order, one iteration  *)
(* per pixel; dn.todo holds the pixels whose iteration has not run and     *)
(* dn.writes[k] the pixels whose iterations assigned result[k-1], in order. *)

FilterColors == {Leaf, Sky, Rust}

\* the largest images are drawn from two of the colors
ImageColors(n) == IF n < MaxPixels THEN FilterColors ELSE {Sky, Rust}

\* the filters with parameters their signatures accept, among them the
\* defaults of median (3) and fast (3, 0.05) and the camera's settings for
\* median (5) and fast (3, 0.08)
FilterSettings ==
    { <<"bilateral", Q(2, 5), Q(3, 20)>>, <<"bilateral", R(0), Q(3, 20)>>,
      <<"median", R(5), R(0)>>, <<"median", R(3), R(0)>>,
      <<"fast", R(3), Q(2, 25)>>, <<"fast", R(3), Q(1, 20)>>, <<"fast", R(3), R(0)>> }

Pixels(width, height) == (0..(width - 1)) \X (0..(height - 1))

InitDenoise ==
    /\ \E w \in 1..MaxPixels, h \in 1..MaxPixels :
          /\ w * h <= MaxPixels
          /\ \E image \in Sequences(ImageColors(w * h), w * h), f \in FilterSettings :
                dn = [mode |-> f[1], image |-> image, width |-> w, height |-> h,
                      p1 |-> f[2], p2 |-> f[3], result |-> <<>>, todo |-> {}, writes |-> <<>>]
    /\ pc = "denoise"
    /\ cam = DefaultCamera
    /\ args = [filename |-> "", world |-> <<>>, lights |-> 0]
    /\ priv = NoPriv
    /\ rand = NoRand
    /\ loop = NoLoop
    /\ color_buffer = <<>>
    /\ final_buffer = <<>>
    /\ out = NoOut
    /\ log = <<>>
    /\ rc = NoCall
    /\ prev = NoRender
    /\ cli = NoCli

notDn == <<cam, args, priv, rand, loop, color_buffer, final_buffer, out, log, rc, prev, cli>>

\* std::vector<color> result(width * height);
DenoiseEnter ==
    /\ pc = "denoise"
    /\ dn' = [dn EXCEPT !.result = [k \in 1..(dn.width * dn.height) |-> Black],
                        !.writes = [k \in 1..(dn.width * dn.height) |-> <<>>],
                        !.todo = Pixels(dn.width, dn.height)]
    /\ pc' = "denoise_loop"
    /\ UNCHANGED notDn

\* the buffer an iteration reads its pixels from
IterationInputInPlace(d) == d.result
IterationInput(d) == d.image

\* one iteration of the loops: result[idx] = ...
DenoiseIteration ==
    /\ pc = "denoise_loop"
    /\ \E px \in dn.todo :
          LET idx == PixelIndex(px[1], px[2], dn.width)
              value == FilterPixel(dn.mode, IterationInput(dn), dn.width, dn.height,
                                   dn.p1, dn.p2, px[1], px[2])
          IN  dn' = [dn EXCEPT !.result[idx + 1] = value,
                               !.writes[idx + 1] = Append(@, px),
                               !.todo = @ \ {px}]
    /\ UNCHANGED pc
    /\ UNCHANGED notDn

\* return result;
DenoiseReturn ==
    /\ pc = "denoise_loop"
    /\ dn.todo = {}
    /\ pc' = "filtered"
    /\ UNCHANGED dn
    /\ UNCHANGED notDn

NextDenoise == DenoiseEnter \/ DenoiseIteration \/ DenoiseReturn

SpecDenoise == InitDenoise /\ [][NextDenoise]_vars

Filtered == pc = "filtered"
Uniform(image) == \A k \in 1..Len(image) : image[k] = image[1]

(* C6: each filter returns a buffer of exactly width*height elements, and
   every element is assigned exactly once, at index y*width+x by the
   iteration of its pixel (x, y). *)
C6_DimensionsPreserved ==
    /\ pc \in {"denoise_loop", "filtered"} =>
          /\ Len(dn.result) = dn.width * dn.height
          /\ \A k \in 1..Len(dn.writes) : Len(dn.writes[k]) <= 1
    /\ Filtered =>
          /\ Len(dn.result) = Len(dn.image)
          /\ \A px \in Pixels(dn.width, dn.height) :
                dn.writes[px[2] * dn.width + px[1] + 1] = <<px>>

C6_Witness ==
    /\ Filtered
    /\ dn.width = 2
    /\ dn.height = 2
    /\ dn.mode = "fast"
    /\ dn.writes = << <<<<0, 0>>>>, <<<<1, 0>>>>, <<<<0, 1>>>>, <<<<1, 1>>>> >>

(* C7: a buffer whose pixels all have the same color c comes back with
   every pixel equal to c, for every filter and every parameter setting. *)
C7_UniformUnchanged ==
    (Filtered /\ Uniform(dn.image)) => dn.result = dn.image

(* C8: the iterations share no mutable state: no step changes the input
   buffer, an iteration writes only its own pixel's element, and the
   returned buffer is the filter's value on the input whatever the order
   of the iterations. *)
C8_IterationsIndependent ==
    /\ [][/\ dn'.image = dn.image
          /\ \A k \in 1..Len(dn.result) :
                (dn'.result[k] # dn.result[k]) => (dn.todo \ dn'.todo) =
                    {<<(k - 1) % dn.width, (k - 1) \div dn.width>>}]_vars
    /\ [](Filtered => dn.result =
            Denoise(dn.mode, dn.image, dn.width, dn.height, dn.p1, dn.p2))

C8_Witness ==
    /\ Filtered
    /\ dn.mode = "median"
    /\ dn.width * dn.height = 4
    /\ ~Uniform(dn.image)
    /\ dn.result # dn.image

---------------------------------------------------------------------------
(* camera::render_to_file and render_to_png: a render from the caller's     *)
(* camera settings to the image output.                                     *)

AspectRatios == {R(1), R(2), Q(3, 2)}
DenoiseModes == {"bilateral", "median", "fast", "gaussian"}
Seeds == {<<0, 1, 1>>, <<1, 0>>}

\* scenes: no surface at all; a lamp, a mirror under the sky and a diffuse
\* wall lit by the lamp; a glass ball in front of a diffuse wall
EmptyWorld == <<>>
LampScript == <<Event(TRUE, Lamp, FALSE, FALSE, Black, R(0), R(0), R(0))>>
MirrorScript == <<Event(TRUE, Black, TRUE, TRUE, Rust, R(0), R(0), R(0))>>
WallScript == <<Event(TRUE, Black, TRUE, FALSE, Grey, R(2), R(1), R(1)),
                Event(TRUE, Lamp, FALSE, FALSE, Black, R(0), R(0), R(0))>>
GlassScript == <<Event(TRUE, Black, TRUE, TRUE, White, R(0), R(0), R(0)),
                 Event(TRUE, Black, TRUE, FALSE, Grey, R(0), R(1), R(1))>>
Worlds == {EmptyWorld, <<LampScript, MirrorScript, WallScript>>, <<GlassScript, WallScript>>}

\* the cameras rendered: every size, sample count and depth without the
\* denoiser, and the denoiser's modes at one sample count and depth
Cameras ==
    { [DefaultCamera EXCEPT !.image_width = w, !.aspect_ratio = a,
                            !.samples_per_pixel = s, !.max_depth = d,
                            !.background = Sky] :
        w \in 1..MaxWidth, a \in AspectRatios, s \in 1..MaxSpp, d \in 0..MaxDepth }
    \cup
    { [DefaultCamera EXCEPT !.image_width = w, !.aspect_ratio = a,
                            !.samples_per_pixel = 1, !.max_depth = MaxDepth,
                            !.background = Sky, !.denoise = TRUE, !.denoise_mode = m] :
        w \in 1..MaxWidth, a \in AspectRatios, m \in DenoiseModes }

Init ==
    /\ cam \in Cameras
    /\ \E f \in {"", "image.png"}, w \in Worlds, l \in 0..MaxLights :
          args = [filename |-> f, world |-> w, lights |-> l]
    /\ \E seed \in Seeds : rand = [seed |-> seed, next |-> 0]
    /\ pc = "start"
    /\ priv = NoPriv
    /\ loop = NoLoop
    /\ color_buffer = <<>>
    /\ final_buffer = <<>>
    /\ out = NoOut
    /\ log = <<>>
    /\ rc = NoCall
    /\ dn = NoFilter
    /\ prev = NoRender
    /\ cli = NoCli

\* render_to_file: initialize(), then render_to_png (which calls initialize()
\* again and allocates color_buffer) for a non-empty filename, else the PPM
\* header on stdout
RenderToFile ==
    /\ pc = "start"
    /\ priv' = Initialize(cam)
    /\ IF args.filename # ""
       THEN /\ color_buffer' = [k \in 1..(cam.image_width * priv'.image_height) |-> Black]
            /\ out' = [out EXCEPT !.path = "png"]
       ELSE /\ color_buffer' = color_buffer
            /\ out' = [out EXCEPT !.path = "ppm"]
    /\ loop' = [loop EXCEPT !.j = 0]
    /\ pc' = "row"
    /\ UNCHANGED <<prev, cli, cam, args, rand, final_buffer, log, rc, dn>>

\* print_progress(current, total): the percentage and the filled part of the bar
print_progress(current, total) ==
    LET percent == (current * 100) \div total
    IN  [current |-> current, total |-> total, percent |-> percent,
         filled |-> (percent * 50) \div 100]

\* for (int j = 0; j < image_height; j++) { print_progress(j, image_height); ...
RowBegin ==
    /\ pc = "row"
    /\ loop.j < priv.image_height
    /\ log' = Append(log, print_progress(loop.j, priv.image_height))
    /\ loop' = [loop EXCEPT !.i = 0]
    /\ pc' = "pixel"
    /\ UNCHANGED <<prev, cli, cam, args, priv, rand, color_buffer, final_buffer, out, rc, dn>>

\* for (int i = 0; i < image_width; i++) { color pixel_color(0,0,0); ...
PixelBegin ==
    /\ pc = "pixel"
    /\ loop.i < cam.image_width
    /\ loop' = [loop EXCEPT !.pixel_color = Black, !.s_j = 0, !.s_i = 0, !.rays = <<>>]
    /\ pc' = "sample"
    /\ UNCHANGED <<prev, cli, cam, args, priv, rand, color_buffer, final_buffer, out, log, rc, dn>>

\* ray r = get_ray(i, j, s_i, s_j);
\* pixel_color += ray_color(r, max_depth, world, lights);
Sample ==
    /\ pc = "sample"
    /\ loop.s_j < priv.sqrt_spp
    /\ loop.s_i < priv.sqrt_spp
    /\ LET g == get_ray(priv, rand, loop.i, loop.j, loop.s_i, loop.s_j)
           ret == ray_color(g.r, cam.max_depth, args.world, args.lights, cam.background)
           c == ret.color
           last == loop.s_i + 1 = priv.sqrt_spp
       IN  /\ loop' = [loop EXCEPT !.pixel_color = CAdd(@, c),
                                   !.rays = Append(@, [s_i |-> loop.s_i, s_j |-> loop.s_j,
                                                       offset |-> g.offset, color |-> c,
                                                       calls |-> ret.calls]),
                                   !.s_i = IF last THEN 0 ELSE @ + 1,
                                   !.s_j = IF last THEN @ + 1 ELSE @]
           /\ rand' = [rand EXCEPT !.next = @ + g.draws]
    /\ UNCHANGED <<prev, cli, cam, args, priv, pc, color_buffer, final_buffer, out, log, rc, dn>>

\* the end of the sample loops: color_buffer[j * image_width + i] =
\* pixel_samples_scale * pixel_color (render_to_png), or write_color(std::cout,
\* pixel_samples_scale * pixel_color) (render_to_file)
PixelEnd ==
    /\ pc = "sample"
    /\ loop.s_j >= priv.sqrt_spp
    /\ LET value == CScale(loop.pixel_color, priv.pixel_samples_scale)
       IN  IF out.path = "png"
           THEN /\ color_buffer' =
                      [color_buffer EXCEPT ![loop.j * cam.image_width + loop.i + 1] = value]
                /\ out' = out
           ELSE /\ color_buffer' = color_buffer
                /\ out' = [out EXCEPT !.colors = Append(@, value)]
    /\ loop' = [loop EXCEPT !.i = @ + 1]
    /\ pc' = "pixel"
    /\ UNCHANGED <<prev, cli, cam, args, priv, rand, final_buffer, log, rc, dn>>

\* the end of a row's pixel loop
RowEnd ==
    /\ pc = "pixel"
    /\ loop.i >= cam.image_width
    /\ loop' = [loop EXCEPT !.j = @ + 1]
    /\ pc' = "row"
    /\ UNCHANGED <<prev, cli, cam, args, priv, rand, color_buffer, final_buffer, out, log, rc, dn>>

\* render_to_file, after the rows: std::clog << "\rDone."
PpmDone ==
    /\ pc = "row"
    /\ loop.j >= priv.image_height
    /\ out.path = "ppm"
    /\ out' = [out EXCEPT !.written = "stdout", !.returned = "void"]
    /\ pc' = "done"
    /\ UNCHANGED <<prev, cli, cam, args, priv, rand, loop, color_buffer, final_buffer, log, rc, dn>>

\* render_to_png: final_buffer = color_buffer; if (denoise) { ... }
FinalBuffer(c, buffer, image_height) ==
    IF c.denoise /\ c.denoise_mode = "bilateral"
        THEN Denoise("bilateral", buffer, c.image_width, image_height, Q(3, 2), Q(3, 20))
    ELSE IF c.denoise /\ c.denoise_mode = "median"
        THEN Denoise("median", buffer, c.image_width, image_height, R(5), R(0))
    ELSE IF c.denoise /\ c.denoise_mode = "fast"
        THEN Denoise("fast", buffer, c.image_width, image_height, R(3), Q(2, 25))
    ELSE buffer

ApplyDenoise ==
    /\ pc = "row"
    /\ loop.j >= priv.image_height
    /\ out.path = "png"
    /\ final_buffer' = FinalBuffer(cam, color_buffer, priv.image_height)
    /\ pc' = "convert"
    /\ UNCHANGED <<prev, cli, cam, args, priv, rand, loop, color_buffer, out, log, rc, dn>>

\* what render_to_png, and render_to_file after it, hand back to the caller
\* when stbi_write_png returned ok: both are void, the outcome is only logged
RenderToPngResult(ok) == "void"

\* render_to_png: the conversion loop reads final_buffer pixel by pixel, and
\* stbi_write_png writes the file or fails; the function returns nothing
WritePng ==
    /\ pc = "convert"
    /\ \E ok \in BOOLEAN :
          out' = [out EXCEPT !.colors = final_buffer,
                             !.written = IF ok THEN "saved" ELSE "failed",
                             !.returned = RenderToPngResult(ok)]
    /\ pc' = "done"
    /\ UNCHANGED <<prev, cli, cam, args, priv, rand, loop, color_buffer, final_buffer, log, rc, dn>>

Next ==
    \/ RenderToFile
    \/ RowBegin
    \/ PixelBegin
    \/ Sample
    \/ PixelEnd
    \/ RowEnd
    \/ PpmDone
    \/ ApplyDenoise
    \/ WritePng

Spec == Init /\ [][Next]_vars

\* a pixel of the current row has just been stored: its samples are in
\* loop.rays and its value is the last one stored
PixelStored == pc = "pixel" /\ loop.i >= 1
StoredValue ==
    IF out.path = "png"
    THEN color_buffer[loop.j * cam.image_width + (loop.i - 1) + 1]
    ELSE out.colors[Len(out.colors)]
RayColors == [k \in 1..Len(loop.rays) |-> loop.rays[k].color]

(* C5: sqrt_spp is the integer (floor) square root of samples_per_pixel;
   each pixel is sampled by exactly sqrt_spp * sqrt_spp rays, one in each
   sub-square of the stratified grid, and its stored value is the sum of their
   colors scaled by 1 / (sqrt_spp * sqrt_spp). *)
C5_StratifiedSampleCount ==
    /\ pc # "start" =>
          /\ priv.sqrt_spp >= 1
          /\ priv.sqrt_spp * priv.sqrt_spp <= cam.samples_per_pixel
          /\ cam.samples_per_pixel < (priv.sqrt_spp + 1) * (priv.sqrt_spp + 1)
          /\ priv.pixel_samples_scale = Q(1, priv.sqrt_spp * priv.sqrt_spp)
    /\ PixelStored =>
          /\ Len(loop.rays) = priv.sqrt_spp * priv.sqrt_spp
          /\ \A a, b \in 0..(priv.sqrt_spp - 1) :
                \E k \in 1..Len(loop.rays) :
                   /\ loop.rays[k].s_i = a
                   /\ loop.rays[k].s_j = b
                   /\ ~RLess(RAdd(loop.rays[k].offset[1], Q(1, 2)), Q(a, priv.sqrt_spp))
                   /\ RLess(RAdd(loop.rays[k].offset[1], Q(1, 2)), Q(a + 1, priv.sqrt_spp))
                   /\ ~RLess(RAdd(loop.rays[k].offset[2], Q(1, 2)), Q(b, priv.sqrt_spp))
                   /\ RLess(RAdd(loop.rays[k].offset[2], Q(1, 2)), Q(b + 1, priv.sqrt_spp))
          /\ StoredValue = CScale(CSum(RayColors), Q(1, priv.sqrt_spp * priv.sqrt_spp))

C5_Witness ==
    /\ PixelStored
    /\ cam.samples_per_pixel = 5
    /\ priv.sqrt_spp = 2
    /\ Len(loop.rays) = 4
    /\ \E k \in 1..4 : loop.rays[k].color # loop.rays[1].color
    /\ StoredValue # Black

\* the buffer of rendered pixel values, row by row: color_buffer in
\* render_to_png, the values written to stdout in render_to_file
Rendered == IF out.path = "png" THEN color_buffer ELSE out.colors
RenderDone == pc = "done"

(* C9: with denoise enabled and a known mode, the image written is the
   filtered rendered buffer, for a PNG file and for PPM on stdout alike. *)
C9_DenoiseOnEveryOutputPath ==
    (RenderDone /\ cam.denoise /\ cam.denoise_mode \in {"bilateral", "median", "fast"}) =>
        /\ Len(Rendered) = cam.image_width * priv.image_height
        /\ out.colors = FinalBuffer(cam, Rendered, priv.image_height)

(* C10: after initialize(), image_height is max(1, floor(image_width /
   aspect_ratio)), hence at least 1, and the divisions by it (viewport width,
   pixel_delta_v, the progress percentage) are by a non-zero value. *)
C10_ImageHeightAtLeastOne ==
    pc # "start" =>
        /\ priv.image_height >= 1
        /\ LET n == cam.aspect_ratio[1]
               d == cam.aspect_ratio[2]
               w == cam.image_width
               h == priv.image_height
           IN  /\ w * d < n => h = 1
               /\ w * d >= n => (h * n <= w * d /\ w * d < (h + 1) * n)
        /\ IsFinite(priv.viewport_width)
        /\ IsFinite(priv.pixel_delta_u)
        /\ IsFinite(priv.pixel_delta_v)
        /\ \A k \in 1..Len(log) :
              /\ log[k].total = priv.image_height
              /\ log[k].percent * log[k].total <= log[k].current * 100
              /\ log[k].current * 100 < (log[k].percent + 1) * log[k].total

C10_Witness ==
    /\ pc = "pixel"
    /\ cam.image_width = 1
    /\ cam.aspect_ratio = R(2)
    /\ priv.image_height = 1
    /\ Len(log) = 1
    /\ log[1].percent = 0

(* C11: when writing the image file fails, the value the render returns to
   its caller differs from the value it returns after a successful write. *)
C11_WriteFailureReported ==
    (RenderDone /\ out.path = "png" /\ out.written = "failed") =>
        out.returned # RenderToPngResult(TRUE)

---------------------------------------------------------------------------
(* Two renders of the same world, lights and camera, each started from the  *)
(* same seed: the caller keeps the first render's buffers and renders again. *)

\* the random source put back to the start of the seed's stream
Reseed(rnd) == [rnd EXCEPT !.next = 0]

RenderAgain ==
    /\ pc = "done"
    /\ prev.run = 1
    /\ prev' = [run |-> 2, buffer |-> Rendered, colors |-> out.colors]
    /\ rand' = Reseed(rand)
    /\ pc' = "start"
    /\ priv' = NoPriv
    /\ loop' = NoLoop
    /\ color_buffer' = <<>>
    /\ final_buffer' = <<>>
    /\ out' = NoOut
    /\ log' = <<>>
    /\ UNCHANGED <<cam, args, rc, dn, cli>>

NextTwice ==
    \/ Next
    \/ RenderAgain

SpecTwice == Init /\ [][NextTwice]_vars

SecondRenderDone == RenderDone /\ prev.run = 2

(* C12: the second of two renders of the same world, lights and camera from
   the same seed has the color buffer of the first, pixel for pixel, and
   hands the same pixels to image output; it has consumed the same number of
   random draws. *)
C12_SameSeedSameBuffer ==
    SecondRenderDone =>
        /\ Rendered = prev.buffer
        /\ out.colors = prev.colors
        /\ rand.next = 3 * priv.sqrt_spp * priv.sqrt_spp * cam.image_width * priv.image_height

C12_Witness ==
    /\ SecondRenderDone
    /\ out.path = "png"
    /\ cam.samples_per_pixel = 4
    /\ Len(prev.buffer) = 4
    /\ ~Uniform(prev.buffer)
    /\ Rendered = prev.buffer

---------------------------------------------------------------------------
(* The two programs' main: the Cornell box program ("cornell") and the      *)
(* scene program ("scenes").  argv is a sequence whose first element is     *)
(* the program name, so the C++ argv[i] is Argv(argv, i).                   *)

MaxArgs == 5
Programs == {"cornell", "scenes"}
Tokens == {"1", "2", "7", "draft", "low", "medium", "high", "ultra",
           "out.png", "--denoise", "fast", "--help"}
QualityNames == {"draft", "low", "medium", "high", "ultra"}

Argv(argv, i) == argv[i + 1]
Argc(argv) == Len(argv)

\* the presets as the usage text lists them: <<width, samples, depth>>
UsagePreset(program, quality) ==
    IF program = "cornell"
    THEN CASE quality = "draft" -> <<400, 50, 8>>
           [] quality = "low" -> <<800, 150, 20>>
           [] quality = "medium" -> <<1200, 500, 50>>
           [] quality = "high" -> <<1920, 1000, 80>>
           [] quality = "ultra" -> <<2560, 4000, 200>>
    ELSE CASE quality = "draft" -> <<400, 10, 2>>
           [] quality = "low" -> <<800, 50, 10>>
           [] quality = "medium" -> <<1200, 250, 30>>
           [] quality = "high" -> <<1920, 500, 50>>
           [] quality = "ultra" -> <<2560, 2000, 100>>

\* get_quality_settings(quality, width, samples, depth)
get_quality_settings(program, quality) ==
    IF program = "cornell"
    THEN IF quality = "draft" THEN <<400, 50, 8>>
         ELSE IF quality = "low" THEN <<800, 150, 20>>
         ELSE IF quality = "high" THEN <<1920, 1000, 80>>
         ELSE IF quality = "ultra" THEN <<2560, 4000, 200>>
         ELSE <<1200, 500, 50>>
    ELSE IF quality = "draft" THEN <<400, 10, 3>>
         ELSE IF quality = "low" THEN <<800, 50, 15>>
         ELSE IF quality = "high" THEN <<1920, 500, 60>>
         ELSE IF quality = "ultra" THEN <<2560, 1000, 150>>
         ELSE <<1200, 250, 40>>

\* main's initial width, samples and depth (the same in both programs)
InitialSettings == <<1200, 250, 30>>

\* atoi on the tokens: a leading number, or 0
Atoi(token) ==
    CASE token = "1" -> 1
      [] token = "2" -> 2
      [] token = "7" -> 7
      [] OTHER -> 0

\* for (int i = first; i < argc; ++i)
\*     if (arg == "--denoise" && i + 1 < argc) denoise_mode = argv[++i];
RECURSIVE ParseDenoise(_, _, _)
ParseDenoise(argv, i, denoise_mode) ==
    IF i >= Argc(argv) THEN denoise_mode
    ELSE IF Argv(argv, i) = "--denoise" /\ i + 1 < Argc(argv)
         THEN ParseDenoise(argv, i + 2, Argv(argv, i + 1))
         ELSE ParseDenoise(argv, i + 1, denoise_mode)

SceneCallOf(scene, settings, output_file, denoise_mode) ==
    [scene |-> scene, width |-> settings[1], samples |-> settings[2], depth |-> settings[3],
     output_file |-> output_file, denoise_mode |-> denoise_mode]

IsHelp(argv) == Argc(argv) > 1 /\ Argv(argv, 1) \in {"-h", "--help"}

\* the Cornell box program's main: argv[1] quality, argv[2] output file,
\* the denoise option searched from argv[3]
MainCornellResult(argv) ==
    IF IsHelp(argv) THEN [exit |-> 0, call |-> NoSceneCall]
    ELSE LET settings == IF Argc(argv) > 1 THEN get_quality_settings("cornell", Argv(argv, 1))
                         ELSE InitialSettings
             output_file == IF Argc(argv) > 2 THEN Argv(argv, 2) ELSE ""
             denoise_mode == ParseDenoise(argv, 3, "")
         IN  [exit |-> 0,
              call |-> SceneCallOf("cornell_box", settings, output_file, denoise_mode)]

\* the scene program's main: argv[1] scene, argv[2] quality, argv[3] output
\* file, the denoise option searched from argv[4]; an unknown scene exits 1
MainScenesResult(argv) ==
    IF IsHelp(argv) THEN [exit |-> 0, call |-> NoSceneCall]
    ELSE LET scene == IF Argc(argv) > 1 THEN Atoi(Argv(argv, 1)) ELSE 2
             settings == IF Argc(argv) > 2 THEN get_quality_settings("scenes", Argv(argv, 2))
                         ELSE InitialSettings
             output_file == IF Argc(argv) > 3 THEN Argv(argv, 3) ELSE ""
             denoise_mode == ParseDenoise(argv, 4, "")
         IN  IF scene = 1
                 THEN [exit |-> 0,
                       call |-> SceneCallOf("simple_scene", settings, output_file, denoise_mode)]
             ELSE IF scene = 2
                 THEN [exit |-> 0,
                       call |-> SceneCallOf("final_scene", settings, output_file, denoise_mode)]
             ELSE [exit |-> 1, call |-> NoSceneCall]

InitMain ==
    /\ \E p \in Programs, n \in 0..MaxArgs :
          \E a \in [1..n -> Tokens] :
             cli = [program |-> p, argv |-> <<p>> \o a, exit |-> Unset, call |-> NoSceneCall]
    /\ pc = "main"
    /\ cam = DefaultCamera
    /\ args = [filename |-> "", world |-> EmptyWorld, lights |-> 1]
    /\ priv = NoPriv
    /\ rand = NoRand
    /\ loop = NoLoop
    /\ color_buffer = <<>>
    /\ final_buffer = <<>>
    /\ out = NoOut
    /\ log = <<>>
    /\ rc = NoCall
    /\ dn = NoFilter
    /\ prev = NoRender

notCli == <<priv, rand, loop, color_buffer, final_buffer, out, log, rc, dn, prev>>

\* main up to the scene function's call, or to its return without one
MainCornell ==
    /\ pc = "main"
    /\ cli.program = "cornell"
    /\ LET res == MainCornellResult(cli.argv)
       IN  /\ cli' = [cli EXCEPT !.exit = res.exit, !.call = res.call]
           /\ pc' = IF res.call = NoSceneCall THEN "exit" ELSE "scene"
    /\ UNCHANGED <<cam, args>>
    /\ UNCHANGED notCli

MainScenes ==
    /\ pc = "main"
    /\ cli.program = "scenes"
    /\ LET res == MainScenesResult(cli.argv)
       IN  /\ cli' = [cli EXCEPT !.exit = res.exit, !.call = res.call]
           /\ pc' = IF res.call = NoSceneCall THEN "exit" ELSE "scene"
    /\ UNCHANGED <<cam, args>>
    /\ UNCHANGED notCli

\* the scene function: the camera's settings, up to cam.render_to_file(
\* output_file, world, lights)
SceneCamera(call) ==
    [DefaultCamera EXCEPT
        !.aspect_ratio = IF call.scene = "simple_scene" THEN Q(16, 9) ELSE R(1),
        !.image_width = call.width,
        !.samples_per_pixel = call.samples,
        !.max_depth = call.depth,
        !.background = IF call.scene = "simple_scene" THEN Sky ELSE Black,
        !.defocus_angle = IF call.scene = "simple_scene" THEN Q(3, 5) ELSE R(0),
        !.denoise = (call.denoise_mode # ""),
        !.denoise_mode = IF call.denoise_mode # "" THEN call.denoise_mode ELSE "bilateral"]

SceneFunction ==
    /\ pc = "scene"
    /\ cam' = SceneCamera(cli.call)
    /\ args' = [args EXCEPT !.filename = cli.call.output_file]
    /\ pc' = "start"
    /\ UNCHANGED cli
    /\ UNCHANGED notCli

NextMain ==
    \/ MainCornell
    \/ MainScenes
    \/ SceneFunction

SpecMain == InitMain /\ [][NextMain]_vars

\* the index of the quality argument in argv
QualityIndex == IF cli.program = "cornell" THEN 1 ELSE 2
RenderStarts == pc = "start" /\ cli.call # NoSceneCall

(* C13: when "--denoise MODE" follows the quality argument, the render starts
   with the denoiser on in mode MODE; with the output file omitted the file name
   is empty (PPM to stdout), and with it given the file name is that
   argument. *)
C13_DenoiseAfterQuality ==
    RenderStarts =>
        LET q == QualityIndex
            argv == cli.argv
        IN  /\ (Argc(argv) = q + 3 /\ Argv(argv, q + 1) = "--denoise") =>
                  /\ cam.denoise
                  /\ cam.denoise_mode = Argv(argv, q + 2)
                  /\ args.filename = ""
            /\ (Argc(argv) = q + 4 /\ Argv(argv, q + 1) # "--denoise"
                                   /\ Argv(argv, q + 2) = "--denoise") =>
                  /\ cam.denoise
                  /\ cam.denoise_mode = Argv(argv, q + 3)
                  /\ args.filename = Argv(argv, q + 1)

(* C14: the width, samples and depth the scene function gets are the ones
   the usage text lists for the quality named on the command line, and the
   ones it lists for medium when no quality is given or the name is unknown. *)
C14_PresetsAsListed ==
    RenderStarts =>
        LET q == QualityIndex
            named == Argc(cli.argv) > q /\ Argv(cli.argv, q) \in QualityNames
            quality == IF named THEN Argv(cli.argv, q) ELSE "medium"
        IN  <<cli.call.width, cli.call.samples, cli.call.depth>> =
                UsagePreset(cli.program, quality)

\* the rows whose pixels are all rendered: j counts them once the render loops run
RowsCompleted == IF pc = "start" THEN 0 ELSE loop.j

(* C15: progress is reported once per row, after the row's pixels are
   complete, with (rows completed, total rows): no report runs ahead of the
   completed rows, and a finished render of H rows has reported
   (1, H), (2, H), ..., (H, H) in this order. *)
C15_ProgressPerCompletedRow ==
    /\ pc \in {"row", "pixel", "sample"} =>
          /\ Len(log) <= RowsCompleted
          /\ \A k \in 1..Len(log) : log[k].current <= RowsCompleted
    /\ RenderDone =>
          /\ Len(log) = priv.image_height
          /\ \A k \in 1..Len(log) :
                /\ log[k].current = k
                /\ log[k].total = priv.image_height

\* median_denoise's window for pixel (x, y): the positions read, one for each
\* kernel offset, with r = kernel_size div 2
WindowRadius == Trunc(RDiv(dn.p1, R(2)))
WindowReads(x, y) ==
    LET r == WindowRadius
        n == 2 * r + 1
    IN  [k \in 1..(n * n) |->
            <<Clamp(x + ((k - 1) % n) - r, 0, dn.width - 1),
              Clamp(y + ((k - 1) \div n) - r, 0, dn.height - 1)>>]
MedianFiltered == Filtered /\ dn.mode = "median"

(* C16: for every pixel and channel, median_denoise returns the median of
   the (2r+1)*(2r+1) channel values of its edge-clamped window: the count is
   odd, at most count div 2 of the values are smaller and at most count div 2
   are larger than the value returned, and the value is one the input holds
   in that channel. *)
C16_MedianOfClampedWindow ==
    MedianFiltered =>
        \A px \in Pixels(dn.width, dn.height), ch \in 1..3 :
            LET reads == WindowReads(px[1], px[2])
                count == Len(reads)
                value(k) == dn.image[reads[k][2] * dn.width + reads[k][1] + 1][ch]
                v == dn.result[px[2] * dn.width + px[1] + 1][ch]
            IN  /\ count = (2 * WindowRadius + 1) * (2 * WindowRadius + 1)
                /\ count % 2 = 1
                /\ Cardinality({k \in 1..count : RLess(value(k), v)}) <= count \div 2
                /\ Cardinality({k \in 1..count : RLess(v, value(k))}) <= count \div 2
                /\ \E k \in 1..count : value(k) = v
                /\ \E i \in 1..Len(dn.image) : dn.image[i][ch] = v

C16_Witness ==
    /\ MedianFiltered
    /\ dn.p1 = R(3)
    /\ dn.width = 3
    /\ dn.image = <<Leaf, Sky, Rust>>
    /\ dn.result[2] = Color(Q(7, 10), Q(1, 2), Q(1, 5))
    /\ \A i \in 1..3 : dn.image[i] # dn.result[2]

---------------------------------------------------------------------------
(* The render as a running program: it keeps taking its next step. *)

\* before the scene function has set up its camera
InitLive ==
    /\ pc = "camera"
    /\ cam = DefaultCamera
    /\ args = [filename |-> "", world |-> EmptyWorld, lights |-> 0]
    /\ rand = NoRand
    /\ priv = NoPriv
    /\ loop = NoLoop
    /\ color_buffer = <<>>
    /\ final_buffer = <<>>
    /\ out = NoOut
    /\ log = <<>>
    /\ rc = NoCall
    /\ dn = NoFilter
    /\ prev = NoRender
    /\ cli = NoCli

\* the scene function sets the camera's fields and calls cam.render_to_file(
\* output_file, world, lights)
SetUpCamera ==
    /\ pc = "camera"
    /\ cam' \in Cameras
    /\ \E f \in {"", "image.png"}, w \in Worlds, l \in 0..MaxLights :
          args' = [filename |-> f, world |-> w, lights |-> l]
    /\ \E seed \in Seeds : rand' = [seed |-> seed, next |-> 0]
    /\ pc' = "start"
    /\ UNCHANGED <<priv, loop, color_buffer, final_buffer, out, log, rc, dn, prev, cli>>

NextLive ==
    \/ SetUpCamera
    \/ Next

\* the states in which the program has a next step (ENABLED <<NextLive>>_vars,
\* from the guards of the actions): all but the one after the return
HasStep ==
    \/ pc \in {"camera", "start", "pixel", "convert"}
    \/ pc = "row" /\ (loop.j < priv.image_height \/ out.path \in {"ppm", "png"})
    \/ pc = "sample" /\ (loop.s_j >= priv.sqrt_spp \/ loop.s_i < priv.sqrt_spp)

\* weak fairness of the program's steps, WF_vars(NextLive), written out as
\* []<>~ENABLED <<NextLive>>_vars \/ []<><<NextLive>>_vars: the program is
\* sequential and nothing but itself delays its next statement
Fairness == []<>(~HasStep) \/ []<><<NextLive>>_vars

SpecLive == InitLive /\ [][NextLive]_vars /\ Fairness

\* the invocations a call with depth d may make: itself and one per bounce
CallBound(depth) == (IF depth > 0 THEN depth ELSE 0) + 1

(* C17: every ray_color call of a render makes at most max(max_depth, 0) + 1
   invocations, itself included (one nested call per invocation, each with
   depth-1), and the render eventually completes every pixel and returns. *)
C17_RenderTerminates ==
    /\ [](\A k \in 1..Len(loop.rays) : loop.rays[k].calls <= CallBound(cam.max_depth))
    /\ [](~RenderDone => HasStep)
    /\ <>RenderDone

C17_Witness ==
    /\ RenderDone
    /\ cam.max_depth = 2
    /\ cam.samples_per_pixel = 4
    /\ Len(out.colors) = 4
    /\ \E k \in 1..Len(loop.rays) : loop.rays[k].calls = 3

============================================================================
